---------------------------- MODULE Spec2Model ----------------------------
(***************************************************************************)
(* Touch decoder of the STM32MP157F-DK2 HAL (src/hal/src/hal/touch.c).     *)
(*                                                                         *)
(* The state is the file's static data: touch_initialized, touch_fd,       *)
(* current_touch_data and the two function-static variables of             *)
(* process_input_event (current_slot, tracking_id).  hal_touch_read is     *)
(* modelled step by step: ReadBegin is the entry checks, ReadEvent one     *)
(* iteration of the event loop, ReadEnd the copy-out and return;          *)
(* hal_touch_get_point and hal_touch_is_touched run the same loop.  The    *)
(* device probe find_touch_device and scale of proof/week3/evdev_min.c are *)
(* pure of that state and have a specification of their own.               *)
(* Variables whose name starts with h_ are history variables: they record  *)
(* what happened, the program never reads them.                            *)
(***************************************************************************)
EXTENDS Integers, Sequences, FiniteSets, TLC

(***************************************************************************)
(* Program constants.                                                      *)
(***************************************************************************)
HAL_TOUCH_MAX_POINTS == 2
HAL_TOUCH_WIDTH == 480
HAL_TOUCH_HEIGHT == 800
RAW_RESOLUTION == 4096
PRESSURE_MAX == 255

Slots == 0 .. (HAL_TOUCH_MAX_POINTS - 1)

HAL_TOUCH_EVENT_NONE == "NONE"
HAL_TOUCH_EVENT_PRESS == "PRESS"
HAL_TOUCH_EVENT_RELEASE == "RELEASE"
HAL_TOUCH_EVENT_MOVE == "MOVE"

HAL_TOUCH_OK == "HAL_TOUCH_OK"
HAL_TOUCH_ERROR == "HAL_TOUCH_ERROR"
HAL_TOUCH_INVALID_PARAM == "HAL_TOUCH_INVALID_PARAM"
HAL_TOUCH_NOT_INITIALIZED == "HAL_TOUCH_NOT_INITIALIZED"
HAL_TOUCH_NO_DATA == "HAL_TOUCH_NO_DATA"

(***************************************************************************)
(* C integer arithmetic: division truncates toward zero, a store to an     *)
(* unsigned field keeps the low bits.  A uint32_t is held as two 16-bit    *)
(* halves, value = hi * 2^16 + lo, because TLC's integers are 32 bits      *)
(* signed and cannot hold 2^32 - 1.                                        *)
(***************************************************************************)
Abs(a) == IF a >= 0 THEN a ELSE -a
CDiv(a, b) == IF (a >= 0) = (b > 0) THEN Abs(a) \div Abs(b) ELSE -(Abs(a) \div Abs(b))
ToU8(v) == v % 256
ToU16(v) == v % 65536
U32(hi, lo) == [hi |-> hi, lo |-> lo]

(***************************************************************************)
(* Bounds of the model.                                                    *)
(***************************************************************************)
MaxSyn == 2        \* report-end events one hal_touch_read call may drain
MaxProbed == 3     \* device paths that may exist; the others do not open
MaxQueued == 3     \* events a scripted source may hold

(***************************************************************************)
(* struct input_event: type, code, value and time (tv_sec, tv_usec).       *)
(***************************************************************************)
TimedEvent(type, code, value, sec, usec) ==
    [type |-> type, code |-> code, value |-> value, sec |-> sec, usec |-> usec]

\* An event stamped 5.250000 s, the time the events carry wherever the time
\* is not what is looked at.
InputEvent(type, code, value) == TimedEvent(type, code, value, 5, 250000)

NoEvent == [type |-> "none", code |-> "none", value |-> 0, sec |-> 0, usec |-> 0]

\* The values the source may put in each kind of event.  The event-by-event
\* and report-by-report specifications use Events (no pressure events, so
\* pressure stays 0 there); the call-by-call one uses FrameEvents.
SlotValues == {-1, 0, 1, 2, 99}
TrackingValues == {-1, 5, 6}
XValues == {1000}
YValues == {2000}
PressureValues == {}

SlotEvents == {InputEvent("EV_ABS", "ABS_MT_SLOT", v) : v \in SlotValues}
TrackingEvents == {InputEvent("EV_ABS", "ABS_MT_TRACKING_ID", v) : v \in TrackingValues}
XEvents == {InputEvent("EV_ABS", "ABS_MT_POSITION_X", v) : v \in XValues}
YEvents == {InputEvent("EV_ABS", "ABS_MT_POSITION_Y", v) : v \in YValues}
PressureEvents == {InputEvent("EV_ABS", "ABS_MT_PRESSURE", v) : v \in PressureValues}
SynEvents == {InputEvent("EV_SYN", "SYN_REPORT", 0)}
OtherEvents == {InputEvent("EV_KEY", "BTN_TOUCH", 1)}

FrameEvents ==
    {InputEvent("EV_ABS", "ABS_MT_SLOT", v) : v \in {0, 1}}
        \cup {InputEvent("EV_ABS", "ABS_MT_TRACKING_ID", v) : v \in {-1, 5}}
        \cup {InputEvent("EV_ABS", "ABS_MT_POSITION_X", 1000)}
        \cup {InputEvent("EV_ABS", "ABS_MT_PRESSURE", 300)}
        \cup SynEvents

\* Events process_input_event has no case for: a key, an axis code it does not
\* know, a synchronization code other than SYN_REPORT, another event type.
IgnoredEvents ==
    { InputEvent("EV_KEY", "BTN_TOUCH", 1),
      InputEvent("EV_ABS", "ABS_MT_TOUCH_MAJOR", 10),
      InputEvent("EV_SYN", "SYN_MT_REPORT", 0),
      InputEvent("EV_REL", "REL_X", 1) }

\* The alphabet of the axis-by-axis specification: both slots, one contact
\* id, one X and one Y value, a pressure below and one above 0 .. 255.
AxisPressures == {-1, 300}

AxisEvents ==
    {InputEvent("EV_ABS", "ABS_MT_SLOT", v) : v \in {0, 1}}
        \cup {InputEvent("EV_ABS", "ABS_MT_TRACKING_ID", v) : v \in {-1, 5}}
        \cup {InputEvent("EV_ABS", "ABS_MT_POSITION_X", 1000)}
        \cup {InputEvent("EV_ABS", "ABS_MT_POSITION_Y", 2000)}
        \cup {InputEvent("EV_ABS", "ABS_MT_PRESSURE", v) : v \in AxisPressures}
        \cup SynEvents \cup IgnoredEvents

\* The alphabet of the specification that looks at the time: one contact in
\* slot 0, and report-ends stamped early after boot, at the 2^32 ms mark and
\* with a wall-clock time.
EventTimes == {<<0, 999>>, <<5, 250000>>, <<4294967, 296000>>, <<1700000000, 123456>>}

TimeEvents ==
    {InputEvent("EV_ABS", "ABS_MT_TRACKING_ID", v) : v \in {-1, 5}}
        \cup {InputEvent("EV_ABS", "ABS_MT_POSITION_X", 1000)}
        \cup {InputEvent("EV_ABS", "ABS_MT_PRESSURE", 300)}
        \cup {TimedEvent("EV_SYN", "SYN_REPORT", 0, t[1], t[2]) : t \in EventTimes}

\* The alphabet of the specification that looks at the scaling: one contact
\* in slot 0, raw positions below 0, inside 0 .. 4095 and above it (one so
\* large that the scaled value passes 65535), given with the multi-touch and
\* with the legacy single-touch codes.
RawXValues == {-100, 1000, 5000, 600000}
RawYValues == {-100, 2000, 4096}

RawEvents ==
    {InputEvent("EV_ABS", "ABS_MT_TRACKING_ID", 5)}
        \cup {InputEvent("EV_ABS", c, v) : c \in {"ABS_MT_POSITION_X", "ABS_X"}, v \in RawXValues}
        \cup {InputEvent("EV_ABS", c, v) : c \in {"ABS_MT_POSITION_Y", "ABS_Y"}, v \in RawYValues}
        \cup SynEvents

\* The alphabet of the specification of the three read functions: contacts
\* coming and going in both slots, one position.
ApiEvents ==
    {InputEvent("EV_ABS", "ABS_MT_SLOT", v) : v \in {0, 1}}
        \cup {InputEvent("EV_ABS", "ABS_MT_TRACKING_ID", v) : v \in {-1, 5}}
        \cup {InputEvent("EV_ABS", "ABS_MT_POSITION_X", 1000)}
        \cup SynEvents

\* The alphabet of the specification that looks at repeated writes: both
\* slots, two positions and two pressures that are stored as different
\* values.
OverwriteEvents ==
    {InputEvent("EV_ABS", "ABS_MT_SLOT", v) : v \in {0, 1}}
        \cup {InputEvent("EV_ABS", "ABS_MT_TRACKING_ID", 5)}
        \cup {InputEvent("EV_ABS", "ABS_MT_POSITION_X", v) : v \in {1000, 5000}}
        \cup {InputEvent("EV_ABS", "ABS_MT_PRESSURE", v) : v \in {100, 300}}
        \cup SynEvents

Events ==
    SlotEvents \cup TrackingEvents \cup XEvents \cup YEvents \cup PressureEvents
        \cup SynEvents \cup OtherEvents

IsSlotSelect(e) == e.type = "EV_ABS" /\ e.code = "ABS_MT_SLOT"
IsTrackingId(e) == e.type = "EV_ABS" /\ e.code = "ABS_MT_TRACKING_ID"
IsPositionX(e) == e.type = "EV_ABS" /\ e.code \in {"ABS_MT_POSITION_X", "ABS_X"}
IsPositionY(e) == e.type = "EV_ABS" /\ e.code \in {"ABS_MT_POSITION_Y", "ABS_Y"}
IsPressure(e) == e.type = "EV_ABS" /\ e.code \in {"ABS_MT_PRESSURE", "ABS_PRESSURE"}
\* A report-end test that forgets the code.
IsReportEndAnyCode(e) == e.type = "EV_SYN"

IsReportEnd(e) == e.type = "EV_SYN" /\ e.code = "SYN_REPORT"

(***************************************************************************)
(* State.                                                                  *)
(***************************************************************************)
VARIABLES
    touch_initialized,   \* static bool touch_initialized
    touch_fd,            \* static int touch_fd
    current_touch_data,  \* static hal_touch_data_t current_touch_data
    current_slot,        \* static int current_slot (process_input_event)
    tracking_id,         \* static int tracking_id (process_input_event)
    pc,                  \* "idle" | "reading": inside hal_touch_read or not
    data_updated,        \* local of hal_touch_read (FALSE outside the call)
    ret,                 \* status the last call returned, "none" while one runs
    out,                 \* *data as the last finished hal_touch_read left it
    crashed,             \* the process was killed by a memory fault
    h_last,              \* the event the running call processed last
    h_seen,              \* per slot: what the current report holds so far
    h_quiet,             \* no axis event since the last report-end
    h_syn,               \* report-ends the running call has processed
    h_frame,             \* current_touch_data as of the last report-end
    script,              \* the events a scripted source still holds
    h_frames,            \* slot 0 as each report-end of the script left it
    scale_call,          \* evdev_min.c: one call of scale, arguments and result
    probe,               \* find_touch_device: one run of its loop
    h_drain,             \* what the scripted source held, and what was applied
    led,                 \* gpio.c: gpio_initialized, led_states, the sysfs files
    lcd                  \* lcd.c: lcd_initialized, fb_buffer, the cells a call wrote

vars ==
    <<touch_initialized, touch_fd, current_touch_data, current_slot, tracking_id,
      pc, data_updated, ret, out, crashed, h_last, h_seen, h_quiet, h_syn, h_frame,
      script, h_frames, scale_call, probe, h_drain, led, lcd>>

program == <<touch_initialized, touch_fd, current_touch_data, current_slot, tracking_id>>
history == <<h_last, h_seen, h_quiet, h_syn, h_frame>>
aside == <<scale_call, probe, h_drain, led, lcd>>

Fds == {3}

\* No call of scale: the touch HAL does not use it.
NoCall == [v |-> 0, min |-> 0, max |-> 0, out |-> 0, done |-> FALSE, ret |-> 0]

\* *data before any hal_touch_read has filled it: no hal_touch_data_t value
\* (a real count is never negative).
NoOut == [points |-> <<>>, count |-> -1, timestamp |-> U32(-1, -1)]

(***************************************************************************)
(* reset_touch_data: memset to zero, then every point invalid, event NONE. *)
(***************************************************************************)
ZeroPoint ==
    [x |-> 0, y |-> 0, id |-> 0, event |-> HAL_TOUCH_EVENT_NONE, pressure |-> 0,
     valid |-> FALSE]

reset_touch_data == [points |-> [i \in Slots |-> ZeroPoint], count |-> 0, timestamp |-> U32(0, 0)]

NothingSeen == [i \in Slots |-> "none"]

InitProgram ==
    /\ touch_initialized = FALSE
    /\ touch_fd = -1
    /\ current_touch_data = reset_touch_data
    /\ current_slot = 0
    /\ tracking_id = -1
    /\ pc = "idle"
    /\ data_updated = FALSE
    /\ ret = "none"
    /\ out = NoOut
    /\ crashed = FALSE
    /\ h_last = NoEvent
    /\ h_seen = NothingSeen
    /\ h_quiet = FALSE
    /\ h_syn = 0
    /\ h_frame = reset_touch_data
    /\ h_frames = <<>>

\* No run of find_touch_device on its own: hal_touch_init has its outcome.
NoProbe == [devices |-> <<>>, i |-> 0, open |-> {}, done |-> FALSE, fd |-> -1]

\* No scripted source to drain.
NoDrain == [source |-> <<>>, applied |-> <<>>]

HAL_LED_COUNT == 4
Leds == 0 .. (HAL_LED_COUNT - 1)
HAL_LED_OFF == 0
HAL_LED_ON == 1

\* gpio.c before any call: static bool gpio_initialized = false, led_states
\* all HAL_LED_OFF; brightness is what the four sysfs files hold.
NoLedCall == [op |-> "none", led |-> 0, state |-> 0, pattern |-> 0, failed |-> {}]

InitLed ==
    [gpio_initialized |-> FALSE,
     led_states |-> [i \in Leds |-> HAL_LED_OFF],
     brightness |-> [i \in Leds |-> 0],
     call |-> NoLedCall,
     ret |-> "none"]

\* lcd.c before any call: static bool lcd_initialized = false, fb_buffer =
\* NULL; written is the set of fb_buffer indices the last call stored to.
NoLcdCall == [op |-> "none", x |-> 0, y |-> 0, width |-> 0, height |-> 0, filled |-> FALSE]

InitLcd ==
    [lcd_initialized |-> FALSE,
     fb_buffer |-> "NULL",
     call |-> NoLcdCall,
     written |-> {},
     ret |-> "none",
     crashed |-> FALSE]

Others == h_drain = NoDrain /\ led = InitLed /\ lcd = InitLcd

Init ==
    /\ InitProgram /\ script = <<>> /\ scale_call = NoCall /\ probe = NoProbe
    /\ Others


(***************************************************************************)
(* process_input_event, one case of the switch per operator.               *)
(***************************************************************************)

\* A variant of SlotSelect whose comparison is off by one (> for >=).
SlotSelectOffByOne(value) == IF value > HAL_TOUCH_MAX_POINTS THEN 0 ELSE value

\* case ABS_MT_SLOT: current_slot = value, values >= HAL_TOUCH_MAX_POINTS become 0
SlotSelect(value) == IF value >= HAL_TOUCH_MAX_POINTS THEN 0 ELSE value

\* case ABS_MT_TRACKING_ID, tracking_id == -1
\* A release that also forgets where the contact was.
ReleasePointClearsPosition(p) == [ZeroPoint EXCEPT !.event = HAL_TOUCH_EVENT_RELEASE]

ReleasePoint(p) == [p EXCEPT !.valid = FALSE, !.event = HAL_TOUCH_EVENT_RELEASE]

\* A variant of PressPoint that reports Press only for a slot that was not
\* valid yet.
PressPointOnlyWhenNew(p, slot) ==
    [p EXCEPT !.valid = TRUE, !.id = ToU8(slot),
              !.event = IF p.valid THEN @ ELSE HAL_TOUCH_EVENT_PRESS]

\* A variant of PressPoint that leaves the id field as it is.
PressPointKeepsId(p, slot) ==
    [p EXCEPT !.valid = TRUE, !.event = HAL_TOUCH_EVENT_PRESS]

\* case ABS_MT_TRACKING_ID, tracking_id != -1
PressPoint(p, slot) ==
    [p EXCEPT !.valid = TRUE, !.id = ToU8(slot), !.event = HAL_TOUCH_EVENT_PRESS]

\* (event->value * HAL_TOUCH_WIDTH) / 4096 stored in a uint16_t
ScaleX(value) == ToU16(CDiv(value * HAL_TOUCH_WIDTH, RAW_RESOLUTION))
ScaleY(value) == ToU16(CDiv(value * HAL_TOUCH_HEIGHT, RAW_RESOLUTION))

\* A position that is kept once the slot has one.
PositionXFirstWriteWins(p, value) ==
    [p EXCEPT !.x = IF p.x = 0 THEN ScaleX(value) ELSE @,
              !.event = IF p.valid THEN HAL_TOUCH_EVENT_MOVE ELSE @]

\* A position that marks Move whether or not the slot holds a contact.
PositionXAlwaysMoves(p, value) ==
    [p EXCEPT !.x = ScaleX(value), !.event = HAL_TOUCH_EVENT_MOVE]

\* case ABS_MT_POSITION_X / ABS_X
PositionX(p, value) ==
    [p EXCEPT !.x = ScaleX(value),
              !.event = IF p.valid THEN HAL_TOUCH_EVENT_MOVE ELSE @]

\* case ABS_MT_POSITION_Y / ABS_Y
PositionY(p, value) ==
    [p EXCEPT !.y = ScaleY(value),
              !.event = IF p.valid THEN HAL_TOUCH_EVENT_MOVE ELSE @]

\* A pressure that marks Move on a valid slot, as the position cases do.
PressureMarksMove(p, value) ==
    [p EXCEPT !.pressure = ToU8(IF value > PRESSURE_MAX THEN PRESSURE_MAX ELSE value),
              !.event = IF p.valid THEN HAL_TOUCH_EVENT_MOVE ELSE @]

\* case ABS_MT_PRESSURE / ABS_PRESSURE, stored in a uint8_t
Pressure(p, value) ==
    [p EXCEPT !.pressure = ToU8(IF value > PRESSURE_MAX THEN PRESSURE_MAX ELSE value)]

\* tv_sec * 1000 + tv_usec / 1000 stored in the uint32_t timestamp: the sum
\* modulo 2^32, worked out on the halves of tv_sec (0 <= tv_sec < 2^31).  On
\* a build with a 32-bit time_t the product overflows a signed long for
\* tv_sec > 2147483; the multiply instruction gives the same low 32 bits.
TimestampMs(sec, usec) ==
    LET low == (sec % 65536) * 1000 + CDiv(usec, 1000)
        high == (sec \div 65536) * 1000 + (low \div 65536)
    IN  U32(ToU16(high), ToU16(low))

\* A report-end that does not zero the count before it counts.
ReportEndAccumulates(d, event) ==
    [d EXCEPT !.count = ToU8(d.count + Cardinality({i \in Slots : d.points[i].valid})),
              !.timestamp = TimestampMs(event.sec, event.usec)]

\* A report-end that wipes the slots that hold no contact.
ReportEndClearsReleased(d, event) ==
    [d EXCEPT !.points = [i \in Slots |-> IF d.points[i].valid THEN d.points[i] ELSE ZeroPoint],
              !.count = ToU8(Cardinality({i \in Slots : d.points[i].valid})),
              !.timestamp = TimestampMs(event.sec, event.usec)]

\* case EV_SYN, SYN_REPORT: recount the valid points, take the event's time
ReportEnd(d, event) ==
    [d EXCEPT !.count = ToU8(Cardinality({i \in Slots : d.points[i].valid})),
              !.timestamp = TimestampMs(event.sec, event.usec)]

\* The cases that index points[current_slot]; their guard is only
\* current_slot < HAL_TOUCH_MAX_POINTS.
TouchesSlot(event) ==
    IsTrackingId(event) \/ IsPositionX(event) \/ IsPositionY(event) \/ IsPressure(event)

OutOfBounds(event) ==
    TouchesSlot(event) /\ current_slot < HAL_TOUCH_MAX_POINTS /\ current_slot \notin Slots

\* The function on an event whose slot access (if any) is inside the table:
\* the new statics and the returned status (ok: HAL_TOUCH_OK, else NO_DATA).
process_input_event(event) ==
    LET d == current_touch_data
        s == current_slot
        at(p) == [d EXCEPT !.points[s] = p]
        same == [data |-> d, slot |-> s, tid |-> tracking_id, ok |-> FALSE]
    IN  CASE IsSlotSelect(event) -> [same EXCEPT !.slot = SlotSelect(event.value)]
          [] IsTrackingId(event) ->
                IF s \notin Slots THEN [same EXCEPT !.tid = event.value]
                ELSE IF event.value = -1
                THEN [same EXCEPT !.tid = event.value, !.ok = TRUE,
                                  !.data = at(ReleasePoint(d.points[s]))]
                ELSE [same EXCEPT !.tid = event.value, !.ok = TRUE,
                                  !.data = at(PressPoint(d.points[s], s))]
          [] IsPositionX(event) ->
                IF s \notin Slots THEN same
                ELSE [same EXCEPT !.data = at(PositionX(d.points[s], event.value)),
                                  !.ok = d.points[s].valid]
          [] IsPositionY(event) ->
                IF s \notin Slots THEN same
                ELSE [same EXCEPT !.data = at(PositionY(d.points[s], event.value)),
                                  !.ok = d.points[s].valid]
          [] IsPressure(event) ->
                IF s \notin Slots THEN same
                ELSE [same EXCEPT !.data = at(Pressure(d.points[s], event.value))]
          [] IsReportEnd(event) -> [same EXCEPT !.data = ReportEnd(d, event), !.ok = TRUE]
          [] OTHER -> same

(***************************************************************************)
(* History: what the events processed so far amount to.                    *)
(***************************************************************************)
SeenAfter(event) ==
    IF IsReportEnd(event) THEN NothingSeen
    ELSE IF current_slot \notin Slots THEN h_seen
    ELSE IF IsTrackingId(event)
    THEN [h_seen EXCEPT ![current_slot] = IF event.value >= 0 THEN "press" ELSE "none"]
    ELSE IF (IsPositionX(event) \/ IsPositionY(event)) /\ h_seen[current_slot] # "none"
    THEN [h_seen EXCEPT ![current_slot] = "press_pos"]
    ELSE h_seen

QuietAfter(event) ==
    IF IsReportEnd(event) THEN TRUE
    ELSE IF event.type = "EV_ABS" THEN FALSE
    ELSE h_quiet

(***************************************************************************)
(* hal_touch_init                                                          *)
(***************************************************************************)
\* An init whose fcntl failure path returns with the handle still in
\* touch_fd.
HalTouchInitKeepsFd ==
    /\ pc = "idle" /\ ~crashed
    /\ \/ /\ touch_initialized
          /\ ret' = HAL_TOUCH_OK
          /\ UNCHANGED <<program, history>>
       \/ /\ ~touch_initialized
          /\ touch_fd' = -1
          /\ ret' = HAL_TOUCH_ERROR
          /\ UNCHANGED <<touch_initialized, current_touch_data, current_slot,
                         tracking_id, history>>
       \/ /\ ~touch_initialized
          /\ \E fd \in Fds : touch_fd' = fd
          /\ ret' = HAL_TOUCH_ERROR
          /\ UNCHANGED <<touch_initialized, current_touch_data, current_slot,
                         tracking_id, history>>
       \/ /\ ~touch_initialized
          /\ \E fd \in Fds : touch_fd' = fd
          /\ current_touch_data' = reset_touch_data
          /\ touch_initialized' = TRUE
          /\ ret' = HAL_TOUCH_OK
          /\ h_seen' = NothingSeen /\ h_quiet' = FALSE /\ h_frame' = reset_touch_data
          /\ UNCHANGED <<current_slot, tracking_id, h_last, h_syn>>
    /\ UNCHANGED <<pc, data_updated, out, crashed, script, h_frames, aside>>

HalTouchInit ==
    /\ pc = "idle" /\ ~crashed
    /\ \/ /\ touch_initialized
          /\ ret' = HAL_TOUCH_OK
          /\ UNCHANGED <<program, history>>
       \/ /\ ~touch_initialized                  \* find_touch_device() < 0
          /\ touch_fd' = -1
          /\ ret' = HAL_TOUCH_ERROR
          /\ UNCHANGED <<touch_initialized, current_touch_data, current_slot,
                         tracking_id, history>>
       \/ /\ ~touch_initialized                  \* a fcntl fails: close, fd = -1
          /\ \E fd \in Fds : touch_fd' = -1
          /\ ret' = HAL_TOUCH_ERROR
          /\ UNCHANGED <<touch_initialized, current_touch_data, current_slot,
                         tracking_id, history>>
       \/ /\ ~touch_initialized
          /\ \E fd \in Fds : touch_fd' = fd
          /\ current_touch_data' = reset_touch_data
          /\ touch_initialized' = TRUE
          /\ ret' = HAL_TOUCH_OK
          /\ h_seen' = NothingSeen /\ h_quiet' = FALSE /\ h_frame' = reset_touch_data
          /\ UNCHANGED <<current_slot, tracking_id, h_last, h_syn>>
    /\ UNCHANGED <<pc, data_updated, out, crashed, script, h_frames, aside>>

\* A variant of hal_touch_deinit that closes the handle and leaves the slot
\* table as it is.
HalTouchDeinitKeepsTable ==
    /\ pc = "idle" /\ ~crashed
    /\ \/ /\ ~touch_initialized
          /\ UNCHANGED <<program, history>>
       \/ /\ touch_initialized
          /\ touch_fd' = -1
          /\ touch_initialized' = FALSE
          /\ h_seen' = NothingSeen /\ h_quiet' = FALSE /\ h_frame' = reset_touch_data
          /\ UNCHANGED <<current_touch_data, current_slot, tracking_id, h_last, h_syn>>
    /\ ret' = HAL_TOUCH_OK
    /\ UNCHANGED <<pc, data_updated, out, crashed, script, h_frames, aside>>

(***************************************************************************)
(* hal_touch_deinit                                                        *)
(***************************************************************************)
HalTouchDeinit ==
    /\ pc = "idle" /\ ~crashed
    /\ \/ /\ ~touch_initialized
          /\ UNCHANGED <<program, history>>
       \/ /\ touch_initialized
          /\ touch_fd' = -1
          /\ current_touch_data' = reset_touch_data
          /\ touch_initialized' = FALSE
          /\ h_seen' = NothingSeen /\ h_quiet' = FALSE /\ h_frame' = reset_touch_data
          /\ UNCHANGED <<current_slot, tracking_id, h_last, h_syn>>
    /\ ret' = HAL_TOUCH_OK
    /\ UNCHANGED <<pc, data_updated, out, crashed, script, h_frames, aside>>

(***************************************************************************)
(* hal_touch_read                                                          *)
(***************************************************************************)
\* An entry that looks at data before it looks at the subsystem.
ReadBeginNullFirst(dataIsNull) ==
    /\ pc = "idle" /\ ~crashed
    /\ \/ /\ dataIsNull
          /\ ret' = HAL_TOUCH_INVALID_PARAM
          /\ UNCHANGED <<pc, data_updated, out, h_syn>>
       \/ /\ ~dataIsNull
          /\ ~touch_initialized \/ touch_fd < 0
          /\ ret' = HAL_TOUCH_NOT_INITIALIZED
          /\ UNCHANGED <<pc, data_updated, out, h_syn>>
       \/ /\ ~dataIsNull
          /\ ~(~touch_initialized \/ touch_fd < 0)
          /\ pc' = "reading"
          /\ data_updated' = FALSE
          /\ out' = NoOut
          /\ h_syn' = 0
          /\ ret' = "none"
    /\ UNCHANGED <<program, crashed, h_last, h_seen, h_quiet, h_frame, script, h_frames, aside>>

\* Entry: the two checks, then data_updated = false.
ReadBegin(dataIsNull) ==
    /\ pc = "idle" /\ ~crashed
    /\ \/ /\ ~touch_initialized \/ touch_fd < 0
          /\ ret' = HAL_TOUCH_NOT_INITIALIZED
          /\ UNCHANGED <<pc, data_updated, out, h_syn>>
       \/ /\ ~(~touch_initialized \/ touch_fd < 0)
          /\ dataIsNull
          /\ ret' = HAL_TOUCH_INVALID_PARAM
          /\ UNCHANGED <<pc, data_updated, out, h_syn>>
       \/ /\ ~(~touch_initialized \/ touch_fd < 0)
          /\ ~dataIsNull
          /\ pc' = "reading"
          /\ data_updated' = FALSE
          /\ out' = NoOut
          /\ h_syn' = 0
          /\ ret' = "none"
    /\ UNCHANGED <<program, crashed, h_last, h_seen, h_quiet, h_frame, script, h_frames, aside>>

\* hal_touch_read is running: called by the application ("reading") or from
\* inside hal_touch_get_point or hal_touch_is_touched.
InRead == {"reading", "get_point", "is_touched"}

\* One iteration of the loop over the events read() returned.
ReadEvent(event) ==
    /\ pc \in InRead /\ ~crashed
    /\ IF OutOfBounds(event)
       THEN \* points[current_slot] lies before the array: the access is undefined
            /\ tracking_id' = IF IsTrackingId(event) THEN event.value ELSE tracking_id
            /\ \/ /\ crashed' = TRUE                 \* the access faults
                  /\ UNCHANGED <<touch_initialized, data_updated>>
               \/ /\ UNCHANGED crashed               \* it lands in other memory
                  /\ \E garbage \in BOOLEAN :
                        data_updated' = \/ data_updated
                                        \/ IsTrackingId(event)
                                        \/ (garbage /\ ~IsPressure(event))
                  /\ \E hit \in BOOLEAN :            \* maybe a neighbouring static
                        touch_initialized' = (touch_initialized /\ ~hit)
            /\ UNCHANGED <<touch_fd, current_touch_data, current_slot>>
       ELSE LET r == process_input_event(event) IN
            /\ current_touch_data' = r.data
            /\ current_slot' = r.slot
            /\ tracking_id' = r.tid
            /\ data_updated' = (data_updated \/ r.ok)
            /\ UNCHANGED <<touch_initialized, touch_fd, crashed>>
    /\ UNCHANGED <<pc, ret, out>>

\* A return that reports new data whether or not an event was processed.
ReadEndAlwaysOk ==
    /\ pc = "reading" /\ ~crashed
    /\ out' = current_touch_data
    /\ ret' = HAL_TOUCH_OK
    /\ pc' = "idle"
    /\ h_last' = NoEvent
    /\ h_syn' = 0
    /\ data_updated' = FALSE
    /\ UNCHANGED <<program, crashed, h_seen, h_quiet, h_frame, script, h_frames, aside>>

\* What read() leaves in errno when it returns -1: nothing to read on the
\* non-blocking handle, or a failure of the device.
ReadErrnos == {"EAGAIN", "EIO", "ENODEV"}

\* hal_touch_get_point after its hal_touch_read(&data) has returned status.
GetPointStatus(status, data) ==
    IF status = HAL_TOUCH_OK /\ data.count > 0 /\ data.points[0].valid
    THEN HAL_TOUCH_OK
    ELSE HAL_TOUCH_NO_DATA

\* hal_touch_is_touched after its hal_touch_read(&data): data.count > 0.
IsTouchedResult(data) == IF data.count > 0 THEN "true" ELSE "false"

\* read() returns <= 0 (nothing left, or an error that left errno): the
\* loop ends, memcpy and return; errno is not looked at.  The caller of
\* hal_touch_read then returns in its turn; out is the data it was given.
ReadEndWith(errno) ==
    /\ pc \in InRead /\ ~crashed
    /\ out' = current_touch_data
    /\ LET status == IF data_updated THEN HAL_TOUCH_OK ELSE HAL_TOUCH_NO_DATA IN
          ret' = CASE pc = "reading" -> status
                   [] pc = "get_point" -> GetPointStatus(status, current_touch_data)
                   [] pc = "is_touched" -> IsTouchedResult(current_touch_data)
    /\ pc' = "idle"
    /\ h_last' = NoEvent
    /\ h_syn' = 0
    /\ data_updated' = FALSE                     \* the local is gone
    /\ UNCHANGED <<program, crashed, h_seen, h_quiet, h_frame, script, h_frames, aside>>

ReadEnd == \E errno \in ReadErrnos : ReadEndWith(errno)

(***************************************************************************)
(* hal_touch_get_point and hal_touch_is_touched: their own checks, then    *)
(* hal_touch_read on a local.  touch_initialized with touch_fd < 0 is not  *)
(* a state of the program, so the inner call passes its first check.       *)
(***************************************************************************)
GetPointBegin(argIsNull) ==
    /\ pc = "idle" /\ ~crashed
    /\ \/ /\ ~touch_initialized
          /\ ret' = HAL_TOUCH_NOT_INITIALIZED
          /\ UNCHANGED <<pc, data_updated, out, h_syn>>
       \/ /\ touch_initialized
          /\ argIsNull
          /\ ret' = HAL_TOUCH_INVALID_PARAM
          /\ UNCHANGED <<pc, data_updated, out, h_syn>>
       \/ /\ touch_initialized /\ touch_fd >= 0
          /\ ~argIsNull
          /\ pc' = "get_point"
          /\ data_updated' = FALSE
          /\ out' = NoOut
          /\ h_syn' = 0
          /\ ret' = "none"
    /\ UNCHANGED <<program, crashed, h_last, h_seen, h_quiet, h_frame, script, h_frames, aside>>

IsTouchedBegin ==
    /\ pc = "idle" /\ ~crashed
    /\ \/ /\ ~touch_initialized
          /\ ret' = "false"
          /\ UNCHANGED <<pc, data_updated, out, h_syn>>
       \/ /\ touch_initialized /\ touch_fd >= 0
          /\ pc' = "is_touched"
          /\ data_updated' = FALSE
          /\ out' = NoOut
          /\ h_syn' = 0
          /\ ret' = "none"
    /\ UNCHANGED <<program, crashed, h_last, h_seen, h_quiet, h_frame, script, h_frames, aside>>

(***************************************************************************)
(* The source hands over any event of an alphabet.  Each specification     *)
(* keeps the history its properties read and leaves the rest untouched.    *)
(***************************************************************************)
FrameAfter(event) == IF IsReportEnd(event) THEN current_touch_data' ELSE h_frame

\* Event by event: the last event processed is remembered.
Feed ==
    \E event \in Events :
        /\ ReadEvent(event)
        /\ h_last' = event
        /\ UNCHANGED <<h_seen, h_quiet, h_syn, h_frame, script, h_frames, aside>>

\* Axis by axis: as Feed, over the alphabet that has pressure and ignored
\* events.
FeedAxis ==
    \E event \in AxisEvents :
        /\ ReadEvent(event)
        /\ h_last' = event
        /\ UNCHANGED <<h_seen, h_quiet, h_syn, h_frame, script, h_frames, aside>>

\* As Feed, over the alphabet whose report-ends carry different times.
FeedTime ==
    \E event \in TimeEvents :
        /\ ReadEvent(event)
        /\ h_last' = event
        /\ UNCHANGED <<h_seen, h_quiet, h_syn, h_frame, script, h_frames, aside>>

\* As Feed, over the alphabet of raw positions.
FeedRaw ==
    \E event \in RawEvents :
        /\ ReadEvent(event)
        /\ h_last' = event
        /\ UNCHANGED <<h_seen, h_quiet, h_syn, h_frame, script, h_frames, aside>>

\* The events of the three read functions; no history is kept.
FeedApi ==
    \E event \in ApiEvents :
        /\ ReadEvent(event)
        /\ UNCHANGED <<h_last, h_seen, h_quiet, h_syn, h_frame, script, h_frames, aside>>

\* Per slot, the position and pressure writes since the last report-end:
\* "none", one ("once") or more ("again").
WritesAfter(event) ==
    IF IsReportEnd(event) THEN NothingSeen
    ELSE IF (IsPositionX(event) \/ IsPressure(event)) /\ current_slot \in Slots
    THEN [h_seen EXCEPT ![current_slot] = IF @ = "none" THEN "once" ELSE "again"]
    ELSE h_seen

\* As Feed, with the writes of the current report counted per slot.
FeedOverwrite ==
    \E event \in OverwriteEvents :
        /\ ReadEvent(event)
        /\ h_last' = event
        /\ h_seen' = WritesAfter(event)
        /\ UNCHANGED <<h_quiet, h_syn, h_frame, script, h_frames, aside>>

\* Report by report: what the current report holds so far is remembered.
FeedReport ==
    \E event \in Events :
        /\ ReadEvent(event)
        /\ h_seen' = IF OutOfBounds(event) THEN h_seen ELSE SeenAfter(event)
        /\ h_quiet' = QuietAfter(event)
        /\ UNCHANGED <<h_last, h_syn, h_frame, script, h_frames, aside>>

\* Call by call: the report-ends of the running call are counted and the
\* frame of the last one is kept.
FeedCall ==
    \E event \in FrameEvents :
        /\ IsReportEnd(event) => h_syn < MaxSyn
        /\ ReadEvent(event)
        /\ h_syn' = IF IsReportEnd(event) THEN h_syn + 1 ELSE h_syn
        /\ h_frame' = FrameAfter(event)
        /\ UNCHANGED <<h_last, h_seen, h_quiet, script, h_frames, aside>>

\* A scripted source: the events come in the script's order, and slot 0 is
\* logged at every report-end.
FrameOfSlot0(d) ==
    [event |-> d.points[0].event, valid |-> d.points[0].valid, count |-> d.count]

FeedScript ==
    /\ script # <<>>
    /\ ReadEvent(Head(script))
    /\ script' = Tail(script)
    /\ h_frames' = IF IsReportEnd(Head(script))
                   THEN Append(h_frames, FrameOfSlot0(current_touch_data'))
                   ELSE h_frames
    /\ UNCHANGED <<h_last, h_seen, h_quiet, h_syn, h_frame, aside>>

Next ==
    \/ HalTouchInit
    \/ HalTouchDeinit
    \/ \E dataIsNull \in BOOLEAN : ReadBegin(dataIsNull)
    \/ Feed
    \/ ReadEnd

Spec == Init /\ [][Next]_vars

NextAxis ==
    \/ HalTouchInit
    \/ HalTouchDeinit
    \/ \E dataIsNull \in BOOLEAN : ReadBegin(dataIsNull)
    \/ FeedAxis
    \/ ReadEnd

SpecAxis == Init /\ [][NextAxis]_vars

NextTime ==
    \/ HalTouchInit
    \/ HalTouchDeinit
    \/ \E dataIsNull \in BOOLEAN : ReadBegin(dataIsNull)
    \/ FeedTime
    \/ ReadEnd

SpecTime == Init /\ [][NextTime]_vars

(***************************************************************************)
(* evdev_min.c, scale: a pure function of four ints.  The arguments are    *)
(* drawn from sets that keep v - min and (v - min) * out inside 32 bits,   *)
(* so the int subtraction does not overflow and the cast of the quotient   *)
(* back to int changes nothing.                                            *)
(***************************************************************************)
\* A rescale that divides before it multiplies.
scaleDividesFirst(v, min, max, extent) ==
    IF max = min THEN 0 ELSE CDiv(v - min, max - min) * extent

\* scale(v, min, max, out); the last parameter is written extent here, out
\* being the caller's copy of the touch data.
scale(v, min, max, extent) ==
    IF max = min THEN 0 ELSE CDiv((v - min) * extent, max - min)

ScaleRaws == {-100, 0, 1, 2048, 4095, 5000}
ScaleMins == {0, 10, 4095}
ScaleMaxs == {0, 10, 4095}
ScaleExtents == {0, 480, 800}

InitScale ==
    /\ InitProgram
    /\ script = <<>>
    /\ \E v \in ScaleRaws, min \in ScaleMins, max \in ScaleMaxs, extent \in ScaleExtents :
          scale_call = [v |-> v, min |-> min, max |-> max, out |-> extent,
                        done |-> FALSE, ret |-> 0]
    /\ probe = NoProbe
    /\ Others

ScaleCall ==
    /\ ~scale_call.done
    /\ scale_call' = [scale_call EXCEPT
                         !.done = TRUE,
                         !.ret = scale(scale_call.v, scale_call.min, scale_call.max,
                                       scale_call.out)]
    /\ UNCHANGED <<program, history, pc, data_updated, ret, out, crashed, script, h_frames,
                   probe, h_drain, led, lcd>>

NextScale == ScaleCall

SpecScale == InitScale /\ [][NextScale]_vars

NextRaw ==
    \/ HalTouchInit
    \/ HalTouchDeinit
    \/ \E dataIsNull \in BOOLEAN : ReadBegin(dataIsNull)
    \/ FeedRaw
    \/ ReadEnd

SpecRaw == Init /\ [][NextRaw]_vars

(***************************************************************************)
(* find_touch_device: the loop over the device paths.  A candidate is what *)
(* the calls on it give: open fails ("absent"); the event-type bits cannot *)
(* be read or lack EV_ABS ("no_abs"); the axis bits cannot be read or lack *)
(* ABS_X or ABS_Y ("no_xy"); else the name is read and hints at touch      *)
(* hardware ("touch_named"), is read and does not ("other_named"), or      *)
(* cannot be read ("unnamed").  A handle is named by its path's index.     *)
(***************************************************************************)
MAX_TOUCH_DEVICES == 8

ProbeKinds == {"absent", "no_abs", "no_xy", "touch_named", "other_named", "unnamed"}

DeviceAt(i) == IF i <= Len(probe.devices) THEN probe.devices[i] ELSE "absent"

InitProbe ==
    /\ InitProgram
    /\ script = <<>>
    /\ scale_call = NoCall
    /\ \E devices \in [1 .. MaxProbed -> ProbeKinds] :
          probe = [devices |-> devices, i |-> 1, open |-> {}, done |-> FALSE, fd |-> -1]
    /\ Others

\* One iteration of the for loop, or the return -1 after it.
FindTouchDeviceStep ==
    /\ probe.i >= 1 /\ ~probe.done
    /\ probe' =
          IF probe.i > MAX_TOUCH_DEVICES
          THEN [probe EXCEPT !.done = TRUE, !.fd = -1]
          ELSE CASE DeviceAt(probe.i) = "absent" ->
                      [probe EXCEPT !.i = @ + 1]
                 [] DeviceAt(probe.i) \in {"no_abs", "no_xy"} ->
                      [probe EXCEPT !.i = @ + 1,
                                    !.open = (@ \cup {probe.i}) \ {probe.i}]
                 [] OTHER ->
                      [probe EXCEPT !.done = TRUE, !.fd = probe.i,
                                    !.open = @ \cup {probe.i}]
    /\ UNCHANGED <<program, history, pc, data_updated, ret, out, crashed, script, h_frames,
                   scale_call, h_drain, led, lcd>>

NextProbe == FindTouchDeviceStep

SpecProbe == InitProbe /\ [][NextProbe]_vars

NextApi ==
    \/ HalTouchInit
    \/ HalTouchDeinit
    \/ \E dataIsNull \in BOOLEAN : ReadBegin(dataIsNull)
    \/ \E argIsNull \in BOOLEAN : GetPointBegin(argIsNull)
    \/ IsTouchedBegin
    \/ FeedApi
    \/ ReadEnd

SpecApi == Init /\ [][NextApi]_vars

NextOverwrite ==
    \/ HalTouchInit
    \/ HalTouchDeinit
    \/ \E dataIsNull \in BOOLEAN : ReadBegin(dataIsNull)
    \/ FeedOverwrite
    \/ ReadEnd

SpecOverwrite == Init /\ [][NextOverwrite]_vars

NextReport ==
    \/ HalTouchInit
    \/ HalTouchDeinit
    \/ \E dataIsNull \in BOOLEAN : ReadBegin(dataIsNull)
    \/ FeedReport
    \/ ReadEnd

SpecReport == Init /\ [][NextReport]_vars

NextCall ==
    \/ HalTouchInit
    \/ HalTouchDeinit
    \/ \E dataIsNull \in BOOLEAN : ReadBegin(dataIsNull)
    \/ FeedCall
    \/ ReadEnd

SpecCall == Init /\ [][NextCall]_vars

(***************************************************************************)
(* The press, move, release script of one contact in slot 0, fed from the  *)
(* reset state with the read calls placed anywhere.                        *)
(***************************************************************************)
LifecycleIds == {0, 5}
LifecycleXs == {1000, 2048}
LifecycleYs == {2000, 3000}

LifecycleScript(id, x1, y1, x2) ==
    << InputEvent("EV_ABS", "ABS_MT_SLOT", 0),
       InputEvent("EV_ABS", "ABS_MT_TRACKING_ID", id),
       InputEvent("EV_ABS", "ABS_MT_POSITION_X", x1),
       InputEvent("EV_ABS", "ABS_MT_POSITION_Y", y1),
       InputEvent("EV_SYN", "SYN_REPORT", 0),
       InputEvent("EV_ABS", "ABS_MT_SLOT", 0),
       InputEvent("EV_ABS", "ABS_MT_POSITION_X", x2),
       InputEvent("EV_SYN", "SYN_REPORT", 0),
       InputEvent("EV_ABS", "ABS_MT_SLOT", 0),
       InputEvent("EV_ABS", "ABS_MT_TRACKING_ID", -1),
       InputEvent("EV_SYN", "SYN_REPORT", 0) >>

InitLifecycle ==
    /\ InitProgram
    /\ scale_call = NoCall /\ probe = NoProbe
    /\ Others
    /\ \E id \in LifecycleIds, x1 \in LifecycleXs, y1 \in LifecycleYs, x2 \in LifecycleXs :
          script = LifecycleScript(id, x1, y1, x2)

NextLifecycle ==
    \/ HalTouchInit
    \/ \E dataIsNull \in BOOLEAN : ReadBegin(dataIsNull)
    \/ FeedScript
    \/ ReadEnd

SpecLifecycle == InitLifecycle /\ [][NextLifecycle]_vars


(***************************************************************************)
(* hal_touch_read against a source whose content is known: the device      *)
(* holds the events of script, read() hands them out in their order and     *)
(* returns <= 0 once none is left.                                          *)
(***************************************************************************)
DrainEvents ==
    { InputEvent("EV_ABS", "ABS_MT_SLOT", 1),
      InputEvent("EV_ABS", "ABS_MT_TRACKING_ID", 5),
      InputEvent("EV_ABS", "ABS_MT_POSITION_X", 1000),
      InputEvent("EV_SYN", "SYN_REPORT", 0) }

DrainScripts == UNION { [1 .. n -> DrainEvents] : n \in 0 .. MaxQueued }

InitDrain ==
    /\ InitProgram
    /\ scale_call = NoCall /\ probe = NoProbe
    /\ led = InitLed /\ lcd = InitLcd
    /\ script \in DrainScripts
    /\ h_drain = [source |-> script, applied |-> <<>>]

\* A variant of the loop body that takes two events from the buffer and
\* processes the first one only.
FeedDrainSkips ==
    /\ script # <<>>
    /\ ReadEvent(Head(script))
    /\ script' = IF Len(script) >= 2 THEN Tail(Tail(script)) ELSE <<>>
    /\ h_drain' = [h_drain EXCEPT !.applied = Append(@, Head(script))]
    /\ UNCHANGED <<history, h_frames, scale_call, probe, led, lcd>>

\* while (read(...) > 0) for (i = 0; i < num_events; i++)
\*     process_input_event(&events[i]): the next event of the source.
FeedDrain ==
    /\ script # <<>>
    /\ ReadEvent(Head(script))
    /\ script' = Tail(script)
    /\ h_drain' = [h_drain EXCEPT !.applied = Append(@, Head(script))]
    /\ UNCHANGED <<history, h_frames, scale_call, probe, led, lcd>>

\* read() returns <= 0: the source has nothing left.
DrainEnd == script = <<>> /\ ReadEnd

NextDrain ==
    \/ HalTouchInit
    \/ \E dataIsNull \in BOOLEAN : ReadBegin(dataIsNull)
    \/ FeedDrain
    \/ DrainEnd

\* The loop of hal_touch_read is not suspended for ever: each of its steps
\* is taken once it is the step to take.
SpecDrain ==
    InitDrain /\ [][NextDrain]_vars /\ WF_vars(FeedDrain) /\ WF_vars(DrainEnd)


(***************************************************************************)
(* gpio.c: the four user LEDs behind /sys/class/leds/.../brightness.       *)
(* led_states is the cache, brightness what the sysfs files hold; a write  *)
(* to a sysfs file can fail (open or write), and then changes nothing.     *)
(***************************************************************************)
HAL_OK == "HAL_OK"
HAL_ERROR == "HAL_ERROR"
HAL_INVALID_PARAM == "HAL_INVALID_PARAM"

\* Everything of the model that gpio.c and lcd.c do not touch.
touchHal == <<program, history, pc, data_updated, ret, out, crashed, script, h_frames,
              scale_call, probe, h_drain>>

\* Arguments of the LED calls: every LED, the first values past the enum
\* and a large one; the states, and one that is neither ON nor OFF.
LedArgs == Leds \cup {HAL_LED_COUNT, HAL_LED_COUNT + 1, 255}
LedStateArgs == {HAL_LED_OFF, HAL_LED_ON, 2}
LedPatterns == {0, 5, 10, 15, 16, 250, 255}

\* pattern & (1 << i), as 0 or 1
PatternBit(pattern, i) == (pattern \div (2 ^ i)) % 2

\* A variant of hal_led_set_state that updates the cache before the write.
SetStateCachesFirst(l, which, state, ok) ==
    IF ~l.gpio_initialized THEN [led |-> l, status |-> HAL_ERROR]
    ELSE IF which >= HAL_LED_COUNT THEN [led |-> l, status |-> HAL_INVALID_PARAM]
    ELSE IF state # HAL_LED_OFF /\ state # HAL_LED_ON
         THEN [led |-> l, status |-> HAL_INVALID_PARAM]
    ELSE IF ok
         THEN [led |-> [l EXCEPT !.brightness[which] = IF state = HAL_LED_ON THEN 1 ELSE 0,
                                 !.led_states[which] = state],
               status |-> HAL_OK]
         ELSE [led |-> [l EXCEPT !.led_states[which] = state], status |-> HAL_ERROR]

\* hal_led_set_state on the LED state l; ok: write_sysfs_file succeeds.
hal_led_set_state(l, which, state, ok) ==
    IF ~l.gpio_initialized THEN [led |-> l, status |-> HAL_ERROR]
    ELSE IF which >= HAL_LED_COUNT THEN [led |-> l, status |-> HAL_INVALID_PARAM]
    ELSE IF state # HAL_LED_OFF /\ state # HAL_LED_ON
         THEN [led |-> l, status |-> HAL_INVALID_PARAM]
    ELSE IF ok
         THEN [led |-> [l EXCEPT !.brightness[which] = IF state = HAL_LED_ON THEN 1 ELSE 0,
                                 !.led_states[which] = state],
               status |-> HAL_OK]
         ELSE [led |-> l, status |-> HAL_ERROR]

\* A variant of the loop of hal_led_set_pattern that goes on with the next
\* LED after a failed write and reports the failure at the end.
RECURSIVE SetPatternKeepsGoing(_, _, _, _)
SetPatternKeepsGoing(l, pattern, i, failAt) ==
    IF i >= HAL_LED_COUNT
    THEN [led |-> l, status |-> IF failAt < HAL_LED_COUNT THEN HAL_ERROR ELSE HAL_OK]
    ELSE LET state == IF PatternBit(pattern, i) # 0 THEN HAL_LED_ON ELSE HAL_LED_OFF
             r == hal_led_set_state(l, i, state, i # failAt)
         IN  SetPatternKeepsGoing(r.led, pattern, i + 1, failAt)

\* The loop of hal_led_set_pattern from LED i on; failAt is the LED whose
\* write fails (HAL_LED_COUNT: none does).
RECURSIVE SetPatternFrom(_, _, _, _)
SetPatternFrom(l, pattern, i, failAt) ==
    IF i >= HAL_LED_COUNT
    THEN [led |-> l, status |-> HAL_OK]
    ELSE LET state == IF PatternBit(pattern, i) # 0 THEN HAL_LED_ON ELSE HAL_LED_OFF
             r == hal_led_set_state(l, i, state, i # failAt)
         IN  IF r.status # HAL_OK THEN r
             ELSE SetPatternFrom(r.led, pattern, i + 1, failAt)

\* The loop of hal_led_deinit: every LED is set OFF, failures are ignored.
RECURSIVE DeinitFrom(_, _, _)
DeinitFrom(l, i, fails) ==
    IF i >= HAL_LED_COUNT THEN l
    ELSE DeinitFrom(hal_led_set_state(l, i, HAL_LED_OFF, i \notin fails).led, i + 1, fails)

LedCall(op, which, state, pattern, failed) ==
    [op |-> op, led |-> which, state |-> state, pattern |-> pattern, failed |-> failed]

HalLedInit ==
    /\ led' = IF led.gpio_initialized
              THEN [led EXCEPT !.ret = HAL_OK, !.call = LedCall("init", 0, 0, 0, {})]
              ELSE [led EXCEPT !.led_states = [i \in Leds |-> HAL_LED_OFF],
                               !.gpio_initialized = TRUE,
                               !.ret = HAL_OK,
                               !.call = LedCall("init", 0, 0, 0, {})]
    /\ UNCHANGED <<touchHal, lcd>>

HalLedDeinit ==
    \E fails \in SUBSET Leds :
        /\ led.gpio_initialized \/ fails = {}
        /\ led' = IF ~led.gpio_initialized
                  THEN [led EXCEPT !.ret = HAL_OK, !.call = LedCall("deinit", 0, 0, 0, {})]
                  ELSE [DeinitFrom(led, 0, fails) EXCEPT
                            !.gpio_initialized = FALSE,
                            !.ret = HAL_OK,
                            !.call = LedCall("deinit", 0, 0, 0, fails)]
        /\ UNCHANGED <<touchHal, lcd>>

HalLedSetState(which, state, ok) ==
    /\ LET r == hal_led_set_state(led, which, state, ok) IN
          led' = [r.led EXCEPT !.ret = r.status,
                               !.call = LedCall("set_state", which, state, 0,
                                                IF ok THEN {} ELSE {which})]
    /\ UNCHANGED <<touchHal, lcd>>

\* hal_led_get_state: the brightness file is read and the cache follows it.
HalLedGetState(which, stateIsNull, ok) ==
    /\ led' = IF ~led.gpio_initialized
              THEN [led EXCEPT !.ret = HAL_ERROR,
                               !.call = LedCall("get_state", which, 0, 0, {})]
              ELSE IF which >= HAL_LED_COUNT \/ stateIsNull
              THEN [led EXCEPT !.ret = HAL_INVALID_PARAM,
                               !.call = LedCall("get_state", which, 0, 0, {})]
              ELSE IF ~ok
              THEN [led EXCEPT !.ret = HAL_ERROR,
                               !.call = LedCall("get_state", which, 0, 0, {which})]
              ELSE [led EXCEPT !.led_states[which] =
                                   IF led.brightness[which] > 0 THEN HAL_LED_ON
                                                                ELSE HAL_LED_OFF,
                               !.ret = HAL_OK,
                               !.call = LedCall("get_state", which, 0, 0, {})]
    /\ UNCHANGED <<touchHal, lcd>>

\* hal_led_toggle: hal_led_get_state, then hal_led_set_state of the other
\* state.
HalLedToggle(which, readOk, writeOk) ==
    /\ led' = IF ~led.gpio_initialized
              THEN [led EXCEPT !.ret = HAL_ERROR,
                               !.call = LedCall("toggle", which, 0, 0, {})]
              ELSE IF which >= HAL_LED_COUNT
              THEN [led EXCEPT !.ret = HAL_INVALID_PARAM,
                               !.call = LedCall("toggle", which, 0, 0, {})]
              ELSE IF ~readOk
              THEN [led EXCEPT !.ret = HAL_ERROR,
                               !.call = LedCall("toggle", which, 0, 0, {which})]
              ELSE LET current == IF led.brightness[which] > 0 THEN HAL_LED_ON
                                                               ELSE HAL_LED_OFF
                       new == IF current = HAL_LED_ON THEN HAL_LED_OFF ELSE HAL_LED_ON
                       r == hal_led_set_state([led EXCEPT !.led_states[which] = current],
                                              which, new, writeOk)
                   IN  [r.led EXCEPT !.ret = r.status,
                                     !.call = LedCall("toggle", which, new, 0,
                                                      IF writeOk THEN {} ELSE {which})]
    /\ UNCHANGED <<touchHal, lcd>>

\* A variant of hal_led_set_pattern whose loop does not stop at a failure.
HalLedSetPatternKeepsGoing(pattern, failAt) ==
    /\ led.gpio_initialized \/ failAt = HAL_LED_COUNT
    /\ led' = IF ~led.gpio_initialized
              THEN [led EXCEPT !.ret = HAL_ERROR,
                               !.call = LedCall("set_pattern", 0, 0, pattern, {})]
              ELSE LET r == SetPatternKeepsGoing(led, pattern, 0, failAt) IN
                   [r.led EXCEPT !.ret = r.status,
                                 !.call = LedCall("set_pattern", 0, 0, pattern,
                                                  {failAt} \cap Leds)]
    /\ UNCHANGED <<touchHal, lcd>>

\* hal_led_set_pattern; failAt is the LED whose write fails.
HalLedSetPattern(pattern, failAt) ==
    /\ led.gpio_initialized \/ failAt = HAL_LED_COUNT
    /\ led' = IF ~led.gpio_initialized
              THEN [led EXCEPT !.ret = HAL_ERROR,
                               !.call = LedCall("set_pattern", 0, 0, pattern, {})]
              ELSE LET r == SetPatternFrom(led, pattern, 0, failAt) IN
                   [r.led EXCEPT !.ret = r.status,
                                 !.call = LedCall("set_pattern", 0, 0, pattern,
                                                  {failAt} \cap Leds)]
    /\ UNCHANGED <<touchHal, lcd>>

NextLed ==
    \/ HalLedInit
    \/ HalLedDeinit
    \/ \E which \in LedArgs, state \in LedStateArgs, ok \in BOOLEAN :
          HalLedSetState(which, state, ok)
    \/ \E which \in LedArgs, stateIsNull \in BOOLEAN, ok \in BOOLEAN :
          HalLedGetState(which, stateIsNull, ok)
    \/ \E which \in LedArgs, readOk \in BOOLEAN, writeOk \in BOOLEAN :
          HalLedToggle(which, readOk, writeOk)
    \/ \E pattern \in LedPatterns, failAt \in 0 .. HAL_LED_COUNT :
          HalLedSetPattern(pattern, failAt)

SpecLed == Init /\ [][NextLed]_vars


(***************************************************************************)
(* lcd.c: hal_lcd_set_pixel and hal_lcd_draw_rectangle on the mapped       *)
(* framebuffer.  The content of fb_buffer is not kept: lcd.written is the  *)
(* set of indices i for which the last call executed fb_buffer[i] = color, *)
(* negative ones included.  A store outside the mapping either faults or   *)
(* lands in whatever memory is there.                                      *)
(***************************************************************************)
LCD_WIDTH == 480
LCD_HEIGHT == 800

HAL_LCD_OK == "HAL_LCD_OK"
HAL_LCD_ERROR == "HAL_LCD_ERROR"
HAL_LCD_INVALID_PARAM == "HAL_LCD_INVALID_PARAM"
HAL_LCD_NOT_INITIALIZED == "HAL_LCD_NOT_INITIALIZED"

\* The cells of the mapping (mode 480 x 800, one uint32_t per pixel).
FbCells == 0 .. (LCD_WIDTH * LCD_HEIGHT - 1)

\* Arguments: the corners of the screen and the first coordinate past it;
\* empty, small and very large sizes.
LcdXs == {0, 1, LCD_WIDTH - 1, LCD_WIDTH}
LcdYs == {0, 1, LCD_HEIGHT - 1, LCD_HEIGHT}
LcdSizes == {0, 1, 2}

LcdRects ==
    [x : LcdXs, y : LcdYs, width : LcdSizes, height : LcdSizes]
        \cup {[x |-> LCD_WIDTH - 1, y |-> LCD_HEIGHT - 1, width |-> 65535, height |-> 65535],
              [x |-> LCD_WIDTH - 2, y |-> 0, width |-> 65535, height |-> 1]}

LcdCall(op, rect, filled) ==
    [op |-> op, x |-> rect.x, y |-> rect.y, width |-> rect.width, height |-> rect.height,
     filled |-> filled]

\* uint16_t end_x = (rect.x + rect.width > LCD_WIDTH) ? LCD_WIDTH : rect.x + rect.width
EndX(rect) ==
    ToU16(IF rect.x + rect.width > LCD_WIDTH THEN LCD_WIDTH ELSE rect.x + rect.width)

EndY(rect) ==
    ToU16(IF rect.y + rect.height > LCD_HEIGHT THEN LCD_HEIGHT ELSE rect.y + rect.height)

\* if (filled) { two nested loops }
FilledCells(rect) ==
    { y * LCD_WIDTH + x : y \in rect.y .. (EndY(rect) - 1), x \in rect.x .. (EndX(rect) - 1) }

\* else { top and bottom lines; left and right lines }; end_y - 1 and
\* end_x - 1 are int expressions and are -1 when end_y or end_x is 0.
OutlineCells(rect) ==
    LET end_x == EndX(rect)
        end_y == EndY(rect)
    IN  { rect.y * LCD_WIDTH + x : x \in { c \in rect.x .. (end_x - 1) : rect.y < LCD_HEIGHT } }
        \cup { (end_y - 1) * LCD_WIDTH + x :
                  x \in { c \in rect.x .. (end_x - 1) : end_y - 1 < LCD_HEIGHT } }
        \cup { y * LCD_WIDTH + rect.x :
                  y \in { r \in rect.y .. (end_y - 1) : rect.x < LCD_WIDTH } }
        \cup { y * LCD_WIDTH + (end_x - 1) :
                  y \in { r \in rect.y .. (end_y - 1) : end_x - 1 < LCD_WIDTH } }

\* hal_lcd_init: already initialized; open, connector or buffer creation
\* fails; mmap fails; or the buffer is mapped.
HalLcdInit ==
    /\ ~lcd.crashed
    /\ \/ /\ lcd.lcd_initialized
          /\ lcd' = [lcd EXCEPT !.ret = HAL_LCD_OK,
                                !.call = [NoLcdCall EXCEPT !.op = "init"], !.written = {}]
       \/ /\ ~lcd.lcd_initialized
          /\ lcd' = [lcd EXCEPT !.ret = HAL_LCD_ERROR,
                                !.call = [NoLcdCall EXCEPT !.op = "init"], !.written = {}]
       \/ /\ ~lcd.lcd_initialized
          /\ lcd' = [lcd EXCEPT !.fb_buffer = "MAP_FAILED", !.ret = HAL_LCD_ERROR,
                                !.call = [NoLcdCall EXCEPT !.op = "init"], !.written = {}]
       \/ /\ ~lcd.lcd_initialized
          /\ lcd' = [lcd EXCEPT !.fb_buffer = "mapped", !.lcd_initialized = TRUE,
                                !.ret = HAL_LCD_OK,
                                !.call = [NoLcdCall EXCEPT !.op = "init"], !.written = {}]
    /\ UNCHANGED <<touchHal, led>>

HalLcdDeinit ==
    /\ ~lcd.crashed
    /\ lcd' = IF ~lcd.lcd_initialized
              THEN [lcd EXCEPT !.ret = HAL_LCD_OK,
                               !.call = [NoLcdCall EXCEPT !.op = "deinit"], !.written = {}]
              ELSE [lcd EXCEPT !.fb_buffer = "NULL", !.lcd_initialized = FALSE,
                               !.ret = HAL_LCD_OK,
                               !.call = [NoLcdCall EXCEPT !.op = "deinit"], !.written = {}]
    /\ UNCHANGED <<touchHal, led>>

\* The stores of a call: all inside the mapping and the call returns, or
\* some outside and the call returns or the process is killed.
LcdStores(call, cells) ==
    \E fault \in BOOLEAN :
        /\ fault => ~(cells \subseteq FbCells)
        /\ lcd' = [lcd EXCEPT !.call = call,
                              !.written = cells,
                              !.ret = IF fault THEN "none" ELSE HAL_LCD_OK,
                              !.crashed = fault]

LcdRejects(call, status) ==
    lcd' = [lcd EXCEPT !.call = call, !.written = {}, !.ret = status]

HalLcdSetPixel(x, y) ==
    /\ ~lcd.crashed
    /\ LET call == LcdCall("set_pixel", [x |-> x, y |-> y, width |-> 1, height |-> 1], TRUE) IN
          IF ~lcd.lcd_initialized \/ lcd.fb_buffer = "NULL"
          THEN LcdRejects(call, HAL_LCD_NOT_INITIALIZED)
          ELSE IF x >= LCD_WIDTH \/ y >= LCD_HEIGHT
          THEN LcdRejects(call, HAL_LCD_INVALID_PARAM)
          ELSE LcdStores(call, {y * LCD_WIDTH + x})
    /\ UNCHANGED <<touchHal, led>>

HalLcdDrawRectangle(rect, filled) ==
    /\ ~lcd.crashed
    /\ LET call == LcdCall("draw_rectangle", rect, filled) IN
          IF ~lcd.lcd_initialized \/ lcd.fb_buffer = "NULL"
          THEN LcdRejects(call, HAL_LCD_NOT_INITIALIZED)
          ELSE IF rect.x >= LCD_WIDTH \/ rect.y >= LCD_HEIGHT
          THEN LcdRejects(call, HAL_LCD_INVALID_PARAM)
          ELSE LcdStores(call, IF filled THEN FilledCells(rect) ELSE OutlineCells(rect))
    /\ UNCHANGED <<touchHal, led>>

NextLcd ==
    \/ HalLcdInit
    \/ HalLcdDeinit
    \/ \E x \in LcdXs, y \in LcdYs : HalLcdSetPixel(x, y)
    \/ \E rect \in LcdRects, filled \in BOOLEAN : HalLcdDrawRectangle(rect, filled)

SpecLcd == Init /\ [][NextLcd]_vars


(***************************************************************************)
(* Properties.                                                             *)
(***************************************************************************)
ReportEndStep == \E event \in SynEvents : ReadEvent(event)

ValidCount(d) == Cardinality({i \in Slots : d.points[i].valid})

\* Frames a finished hal_touch_read call signals to its caller: its one copy
\* of the data counts as a new frame when the status is HAL_TOUCH_OK.
FramesDelivered(status) == IF status = HAL_TOUCH_OK THEN 1 ELSE 0

\* C1: when a tracking-id event with value >= 0 on slot s is followed by
\* position events on slot s before the next report-end, the data produced at
\* that report-end has event kind Press for slot s.
C1_PressWinsOverMove ==
    [][ReportEndStep =>
         \A s \in Slots :
            h_seen[s] = "press_pos" =>
               current_touch_data'.points[s].event = HAL_TOUCH_EVENT_PRESS]_vars

\* C2: the script [slot 0, tracking id, x, y, report-end], [slot 0, x,
\* report-end], [slot 0, tracking -1, report-end] fed from the reset state gives
\* three frames of kind Press, Move, Release for slot 0, the third one with
\* slot 0 invalid and count 0.
C2_Lifecycle ==
    (script = <<>> /\ Len(h_frames) = 3) =>
        /\ h_frames[1].event = HAL_TOUCH_EVENT_PRESS
        /\ h_frames[2].event = HAL_TOUCH_EVENT_MOVE
        /\ h_frames[3].event = HAL_TOUCH_EVENT_RELEASE
        /\ h_frames[3].valid = FALSE
        /\ h_frames[3].count = 0

\* C3: a report-end that follows a report-end with no axis event in between
\* leaves count and each slot's valid, x, y, pressure as they were, and every
\* slot's event kind is None.
C3_IdempotentHeartbeat ==
    [][(h_quiet /\ ReportEndStep) =>
         /\ current_touch_data'.count = current_touch_data.count
         /\ \A s \in Slots :
               /\ current_touch_data'.points[s].valid = current_touch_data.points[s].valid
               /\ current_touch_data'.points[s].x = current_touch_data.points[s].x
               /\ current_touch_data'.points[s].y = current_touch_data.points[s].y
               /\ current_touch_data'.points[s].pressure = current_touch_data.points[s].pressure
               /\ current_touch_data'.points[s].event = HAL_TOUCH_EVENT_NONE]_vars

\* C4: in the data hal_touch_read hands to its caller, count is the number of
\* points whose valid flag is true.
C4_CountMatchesValid == out # NoOut => out.count = ValidCount(out)

\* C5: the data hal_touch_read copies out is the slot table as the most recent
\* report-end left it (the reset state if there was none).
C5_NoPartialFrame == [][ReadEnd => out' = h_frame]_vars

\* C6: a hal_touch_read call that processed k >= 1 report-ends delivers k
\* frames to its caller (the case k = 0 is C7).
C6_OneFramePerReportEnd ==
    [][(ReadEnd /\ h_syn >= 1) => FramesDelivered(ret') = h_syn]_vars

\* C7: a hal_touch_read call whose events held no report-end returns
\* HAL_TOUCH_NO_DATA, whatever else they held.
C7_NoReportEndNoFrame ==
    [][(ReadEnd /\ h_syn = 0) => ret' = HAL_TOUCH_NO_DATA]_vars

\* C8: the current slot pointer is always in 0 .. N-1 and the decoder never
\* faults.
C8_SlotInBounds == current_slot \in Slots /\ ~crashed

\* C9: a slot-select with a value >= N is exactly a slot-select of 0: the step
\* it makes is the step slot-select(0) makes from the same state, and it does
\* not fault.
C9_SlotAboveRangeIsSlot0 ==
    [][\A event \in SlotEvents :
          (event.value >= HAL_TOUCH_MAX_POINTS /\ ReadEvent(event)) =>
              /\ ReadEvent(InputEvent("EV_ABS", "ABS_MT_SLOT", 0))
              /\ ~crashed']_vars

\* C9 witness: a slot-select with a value >= N has just been processed.
C9_Witness ==
    /\ pc = "reading"
    /\ IsSlotSelect(h_last) /\ h_last.value >= HAL_TOUCH_MAX_POINTS
    /\ current_slot = 0
    /\ \E s \in Slots : current_touch_data.points[s].valid

\* C10: after a tracking-id event with value >= 0 the current slot is valid
\* with event kind Press (never Release or Move), whatever the slot was before.
C10_TrackingIdPresses ==
    [][\A event \in TrackingEvents :
          (event.value >= 0 /\ current_slot \in Slots /\ ReadEvent(event)) =>
              /\ current_touch_data'.points[current_slot].valid
              /\ current_touch_data'.points[current_slot].event = HAL_TOUCH_EVENT_PRESS]_vars

\* C10 witness: a second tracking id has been assigned to a slot that is
\* valid and shows Press.
C10_Witness ==
    /\ pc = "reading"
    /\ IsTrackingId(h_last) /\ h_last.value = 6
    /\ current_slot \in Slots
    /\ current_touch_data.points[current_slot].valid
    /\ current_touch_data.points[current_slot].event = HAL_TOUCH_EVENT_PRESS
    /\ current_touch_data.points[current_slot].x # 0

\* C11: a tracking-id event with value -1 makes the current slot invalid with
\* event kind Release, keeps that slot's x, y and pressure and leaves every
\* other slot as it was; a report-end counts exactly the slots that are valid
\* when it arrives, so the released slot is not in its count.
C11_TrackingIdReleases ==
    [][/\ \A event \in AxisEvents :
             (IsTrackingId(event) /\ event.value = -1
                 /\ current_slot \in Slots /\ ReadEvent(event)) =>
                 /\ ~current_touch_data'.points[current_slot].valid
                 /\ current_touch_data'.points[current_slot].event = HAL_TOUCH_EVENT_RELEASE
                 /\ current_touch_data'.points[current_slot].x
                        = current_touch_data.points[current_slot].x
                 /\ current_touch_data'.points[current_slot].y
                        = current_touch_data.points[current_slot].y
                 /\ current_touch_data'.points[current_slot].pressure
                        = current_touch_data.points[current_slot].pressure
                 /\ \A s \in Slots \ {current_slot} :
                       current_touch_data'.points[s] = current_touch_data.points[s]
       /\ ReportEndStep =>
             current_touch_data'.count =
                 Cardinality({s \in Slots : current_touch_data.points[s].valid})]_vars

\* C11 witness: a tracking id -1 has just released a slot that had a
\* position and a pressure, while the other slot holds a contact.
C11_Witness ==
    /\ pc = "reading"
    /\ IsTrackingId(h_last) /\ h_last.value = -1
    /\ current_slot \in Slots
    /\ ~current_touch_data.points[current_slot].valid
    /\ current_touch_data.points[current_slot].event = HAL_TOUCH_EVENT_RELEASE
    /\ current_touch_data.points[current_slot].x # 0
    /\ current_touch_data.points[current_slot].y # 0
    /\ current_touch_data.points[current_slot].pressure # 0
    /\ \E s \in Slots \ {current_slot} : current_touch_data.points[s].valid

\* C12: a position X or Y event for a current slot that is not valid records
\* the scaled coordinate, does not make the slot valid and does not change its
\* event kind; a tracking id >= 0 that follows makes the slot valid and keeps
\* the coordinates recorded before it, and the report-end keeps them too.
C12_PositionBeforeTrackingId ==
    [][/\ \A event \in XEvents \cup YEvents :
             (current_slot \in Slots /\ ~current_touch_data.points[current_slot].valid
                 /\ ReadEvent(event)) =>
                 /\ IsPositionX(event) =>
                       current_touch_data'.points[current_slot].x = ScaleX(event.value)
                 /\ IsPositionY(event) =>
                       current_touch_data'.points[current_slot].y = ScaleY(event.value)
                 /\ ~current_touch_data'.points[current_slot].valid
                 /\ current_touch_data'.points[current_slot].event
                        = current_touch_data.points[current_slot].event
       /\ \A event \in TrackingEvents \cup SynEvents :
             ((IsTrackingId(event) => event.value >= 0)
                 /\ current_slot \in Slots /\ ReadEvent(event)) =>
                 /\ IsTrackingId(event) => current_touch_data'.points[current_slot].valid
                 /\ \A s \in Slots :
                       /\ current_touch_data'.points[s].x = current_touch_data.points[s].x
                       /\ current_touch_data'.points[s].y = current_touch_data.points[s].y]_vars

\* C12 witness: a position has just been recorded in a slot that holds no
\* contact and has never held one.
C12_Witness ==
    /\ pc = "reading"
    /\ IsPositionX(h_last)
    /\ current_slot \in Slots
    /\ ~current_touch_data.points[current_slot].valid
    /\ current_touch_data.points[current_slot].event = HAL_TOUCH_EVENT_NONE
    /\ current_touch_data.points[current_slot].x = ScaleX(h_last.value)
    /\ current_touch_data.points[current_slot].x # 0

\* C13: after a pressure event with value v the current slot's pressure is
\* min(max(v, 0), 255): a negative value is stored as 0.
C13_PressureClamped ==
    [][\A event \in AxisEvents :
          (IsPressure(event) /\ current_slot \in Slots /\ ReadEvent(event)) =>
              current_touch_data'.points[current_slot].pressure =
                  IF event.value < 0 THEN 0
                  ELSE IF event.value > 255 THEN 255 ELSE event.value]_vars

\* C14: a pressure event changes nothing but the pressure field of the
\* current slot: that slot's event kind, valid, x, y and id, every other slot,
\* the current slot pointer, count and timestamp stay as they were, and the
\* event does not make the call report a frame.
C14_PressureOnlyPressure ==
    [][\A event \in AxisEvents :
          (IsPressure(event) /\ current_slot \in Slots /\ ReadEvent(event)) =>
              /\ current_touch_data' =
                    [current_touch_data EXCEPT
                        !.points[current_slot].pressure =
                            current_touch_data'.points[current_slot].pressure]
              /\ current_slot' = current_slot
              /\ data_updated' = data_updated]_vars

\* C14 witness: a pressure event has just changed the pressure of a slot
\* whose contact still shows Press.
C14_Witness ==
    /\ pc = "reading"
    /\ IsPressure(h_last)
    /\ current_slot \in Slots
    /\ current_touch_data.points[current_slot].valid
    /\ current_touch_data.points[current_slot].event = HAL_TOUCH_EVENT_PRESS
    /\ current_touch_data.points[current_slot].pressure = PRESSURE_MAX
    /\ ~data_updated

\* C15: a report-end leaves every slot's valid, x, y and pressure and the
\* current slot pointer as they were, so the axis events after it go to the
\* slot selected before it.
C15_ReportEndKeepsSlots ==
    [][ReportEndStep =>
         /\ current_slot' = current_slot
         /\ \A s \in Slots :
               /\ current_touch_data'.points[s].valid = current_touch_data.points[s].valid
               /\ current_touch_data'.points[s].x = current_touch_data.points[s].x
               /\ current_touch_data'.points[s].y = current_touch_data.points[s].y
               /\ current_touch_data'.points[s].pressure
                      = current_touch_data.points[s].pressure]_vars

\* C15 witness: a report-end has just been processed with slot 1 selected,
\* slot 1 holding a contact and slot 0 holding the position and pressure of a
\* contact that is gone.
C15_Witness ==
    /\ pc = "reading"
    /\ IsReportEnd(h_last)
    /\ current_slot = 1
    /\ current_touch_data.points[1].valid
    /\ ~current_touch_data.points[0].valid
    /\ current_touch_data.points[0].x # 0
    /\ current_touch_data.points[0].pressure # 0
    /\ current_touch_data.count = 1

\* C16: an event that is none of slot-select, tracking-id, position X/Y,
\* pressure, report-end (a key, another axis code, another synchronization
\* code, another event type) leaves the decoder state as it was and does not
\* make the call report a frame.
C16_OtherEventsIgnored ==
    [][\A event \in IgnoredEvents :
          ReadEvent(event) =>
              /\ UNCHANGED program
              /\ data_updated' = data_updated
              /\ ~crashed']_vars

\* C16 witness: a synchronization event with a code other than SYN_REPORT
\* has just been processed while a contact waits for its report-end: the
\* count has not been recomputed.
C16_Witness ==
    /\ pc = "reading"
    /\ h_last \in IgnoredEvents /\ h_last.type = "EV_SYN"
    /\ \E s \in Slots : current_touch_data.points[s].valid
    /\ current_touch_data.count = 0

\* tv_sec * 1000 + tv_usec / 1000 as a number, in the base the timestamp is
\* held in: the high part is not reduced, so a value of 2^32 or more is not
\* the image of any uint32_t.
ExactMs(sec, usec) ==
    LET low == (sec % 65536) * 1000 + (usec \div 1000)
    IN  U32((sec \div 65536) * 1000 + (low \div 65536), low % 65536)

\* C17: the timestamp a report-end leaves is seconds * 1000 + microseconds /
\* 1000 of that event, for every event time (5250 for 5.250000 s), and no
\* other event changes the timestamp.
C17_TimestampMilliseconds ==
    [][\A event \in TimeEvents :
          (ReadEvent(event) /\ h_last' = event) =>
              /\ IsReportEnd(event) =>
                    current_touch_data'.timestamp = ExactMs(event.sec, event.usec)
              /\ (IsReportEnd(event) /\ event.sec = 5 /\ event.usec = 250000) =>
                    current_touch_data'.timestamp = U32(0, 5250)
              /\ ~IsReportEnd(event) =>
                    current_touch_data'.timestamp = current_touch_data.timestamp]_vars

\* C18: at every report-end count becomes the number of slots that are valid
\* at that moment; with a tracking id >= 0 assigned to slot 0 and to slot 1
\* before one report-end, that report-end leaves count 2 and both slots
\* valid, and the call that processed just this report-end, with nothing
\* after it, hands that one frame to its caller.
C18_CountAtReportEnd ==
    [][/\ ReportEndStep =>
             /\ current_touch_data'.count
                   = Cardinality({s \in Slots : current_touch_data.points[s].valid})
             /\ current_touch_data'.count = ValidCount(current_touch_data')
             /\ (\A s \in Slots : /\ current_touch_data.points[s].valid
                                    /\ current_touch_data.points[s].event = HAL_TOUCH_EVENT_PRESS) =>
                    /\ current_touch_data'.count = HAL_TOUCH_MAX_POINTS
                    /\ \A s \in Slots : current_touch_data'.points[s].valid
       /\ (ReadEnd /\ h_syn = 1 /\ h_frame = current_touch_data) =>
             /\ FramesDelivered(ret') = 1
             /\ out' = h_frame]_vars

\* C18 witness: a call has handed out a frame with both slots pressed and
\* count 2.
C18_Witness ==
    /\ pc = "idle"
    /\ ret = HAL_TOUCH_OK
    /\ out # NoOut
    /\ out.count = HAL_TOUCH_MAX_POINTS
    /\ \A s \in Slots : /\ out.points[s].valid
                         /\ out.points[s].event = HAL_TOUCH_EVENT_PRESS

\* C19: a hal_touch_read call that finds no event in the source returns
\* HAL_TOUCH_NO_DATA and leaves the slot table, the current slot pointer,
\* count and timestamp as they were; the call does not wait for events: once
\* it is in its read loop it can always return.
C19_EmptyBatchNoOp ==
    /\ []((pc = "reading" /\ ~crashed) => ENABLED ReadEnd)
    /\ [][(ReadEnd /\ h_last = NoEvent) =>
             /\ ret' = HAL_TOUCH_NO_DATA
             /\ FramesDelivered(ret') = 0
             /\ UNCHANGED program
             /\ out' = current_touch_data]_vars

\* C19 witness: a call has returned HAL_TOUCH_NO_DATA with a copy of a table
\* that holds a reported contact.
C19_Witness ==
    /\ pc = "idle"
    /\ ret = HAL_TOUCH_NO_DATA
    /\ out = current_touch_data
    /\ out.count = 1
    /\ \E s \in Slots : out.points[s].valid

\* q is num / den as C divides ints: the remainder is smaller than the
\* divisor and, when it is not zero, has the sign of the dividend.
IsCQuotient(q, num, den) ==
    LET r == num - q * den
    IN  /\ Abs(r) < Abs(den)
        /\ r # 0 => (r > 0) = (num > 0)

\* C20: scale(raw, raw_min, raw_max, extent) is the integer quotient
\* (raw - raw_min) * extent / (raw_max - raw_min) when raw_max # raw_min and
\* 0 when raw_max = raw_min, whatever raw and extent are;
\* scale(2048, 0, 4095, 480) = 240.
C20_ScaleIsLinearRescale ==
    scale_call.done =>
        /\ scale_call.max = scale_call.min => scale_call.ret = 0
        /\ scale_call.max # scale_call.min =>
              IsCQuotient(scale_call.ret,
                          (scale_call.v - scale_call.min) * scale_call.out,
                          scale_call.max - scale_call.min)
        /\ (scale_call.v = 2048 /\ scale_call.min = 0 /\ scale_call.max = 4095
               /\ scale_call.out = 480) => scale_call.ret = 240

\* C20 witness: scale(2048, 0, 4095, 480) has returned 240.
C20_Witness ==
    /\ scale_call.done
    /\ scale_call.v = 2048 /\ scale_call.min = 0 /\ scale_call.max = 4095
    /\ scale_call.out = 480
    /\ scale_call.ret = 240

\* C21: a position X event with raw value v leaves x = v * 480 / 4096 in the
\* current slot and a position Y event leaves y = v * 800 / 4096 (integer
\* division), for every raw value v; ABS_X and ABS_Y make the step
\* ABS_MT_POSITION_X and ABS_MT_POSITION_Y make.
C21_FixedDenominatorScaling ==
    [][\A event \in RawEvents :
          (current_slot \in Slots /\ ReadEvent(event) /\ h_last' = event) =>
              /\ IsPositionX(event) =>
                    /\ current_touch_data'.points[current_slot].x
                          = CDiv(event.value * HAL_TOUCH_WIDTH, RAW_RESOLUTION)
                    /\ ReadEvent(InputEvent("EV_ABS", "ABS_MT_POSITION_X", event.value))
              /\ IsPositionY(event) =>
                    /\ current_touch_data'.points[current_slot].y
                          = CDiv(event.value * HAL_TOUCH_HEIGHT, RAW_RESOLUTION)
                    /\ ReadEvent(InputEvent("EV_ABS", "ABS_MT_POSITION_Y", event.value))]_vars

\* C22: in the data hal_touch_read hands to its caller every point has x in
\* 0 .. 479 and y in 0 .. 799, whatever raw positions the events carried.
C22_CoordinatesOnScreen ==
    out # NoOut =>
        \A i \in Slots : /\ out.points[i].x \in 0 .. (HAL_TOUCH_WIDTH - 1)
                         /\ out.points[i].y \in 0 .. (HAL_TOUCH_HEIGHT - 1)

\* C23: in the data hal_touch_read hands to its caller points[i].id = i for
\* every slot index i, whether the slot is valid or not and whether it was
\* ever pressed or not.
C23_IdIsIndex ==
    out # NoOut => \A i \in Slots : out.points[i].id = i

\* C24: hal_touch_init on a subsystem that is not initialized either returns
\* HAL_TOUCH_OK with the subsystem initialized, touch_fd an open handle and
\* the slot table reset, or returns HAL_TOUCH_ERROR with the subsystem not
\* initialized and touch_fd = -1; it is one attempt.  In every state
\* touch_initialized implies touch_fd >= 0.
C24_InitAllOrNothing ==
    /\ [](touch_initialized => touch_fd >= 0)
    /\ [][(HalTouchInit /\ ~touch_initialized) =>
             /\ pc' = "idle"
             /\ \/ /\ ret' = HAL_TOUCH_OK
                   /\ touch_initialized'
                   /\ touch_fd' >= 0
                   /\ current_touch_data' = reset_touch_data
                \/ /\ ret' = HAL_TOUCH_ERROR
                   /\ ~touch_initialized'
                   /\ touch_fd' = -1]_vars

\* C24 witness: an init has failed on a subsystem that was in use before.
C24_Witness ==
    /\ pc = "idle"
    /\ ret = HAL_TOUCH_ERROR
    /\ ~touch_initialized
    /\ touch_fd = -1
    /\ out # NoOut

\* A candidate the probe may select: absolute axes with X and Y, and a name
\* that hints at touch hardware when the name can be read.
Selectable(kind) == kind \in {"touch_named", "unnamed"}

\* C25: the probe returns the first candidate, in path order, that has the
\* absolute-axis category, both X and Y and, when its name can be read, a
\* name that hints at touch hardware; a candidate whose name is read and
\* does not hint at touch hardware is not returned; every candidate that is
\* not returned has its handle closed.
C25_ProbeSelection ==
    probe.done =>
        /\ probe.fd >= 1 =>
              /\ Selectable(DeviceAt(probe.fd))
              /\ \A j \in 1 .. (probe.fd - 1) : ~Selectable(DeviceAt(j))
        /\ probe.fd = -1 => \A j \in 1 .. MAX_TOUCH_DEVICES : ~Selectable(DeviceAt(j))
        /\ probe.open \subseteq {probe.fd}

\* A contact is active: some slot is valid.
TouchPresent(d) == \E s \in Slots : d.points[s].valid

\* C26: hal_touch_get_point returns HAL_TOUCH_OK whenever a touch is present
\* (some slot is valid once the available events are processed), whichever
\* slot holds it and whether or not events arrived since the last call, and
\* HAL_TOUCH_NO_DATA only when no touch is present.
C26_GetPointWhenTouched ==
    [][(ReadEnd /\ pc = "get_point") =>
         /\ TouchPresent(current_touch_data) => ret' = HAL_TOUCH_OK
         /\ ret' = HAL_TOUCH_NO_DATA => ~TouchPresent(current_touch_data)]_vars

\* C27: hal_touch_is_touched returns true exactly when some slot is valid
\* once the available events are processed, and false on a subsystem that is
\* not initialized.
C27_IsTouchedIffValid ==
    [][/\ (ReadEnd /\ pc = "is_touched") =>
             (ret' = "true" <=> TouchPresent(current_touch_data))
       /\ (IsTouchedBegin /\ ~touch_initialized) => ret' = "false"]_vars

\* C28: hal_touch_read on a subsystem that is not initialized returns
\* HAL_TOUCH_NOT_INITIALIZED, whether data is NULL or not; on an initialized
\* one with data = NULL it returns HAL_TOUCH_INVALID_PARAM; either way it
\* does not enter its read loop (no event is consumed), the decoder state
\* stays as it was and nothing is copied out.
C28_ReadRejects ==
    [][\A dataIsNull \in BOOLEAN :
          ReadBegin(dataIsNull) =>
              /\ ~touch_initialized =>
                    /\ ret' = HAL_TOUCH_NOT_INITIALIZED
                    /\ pc' = "idle"
                    /\ UNCHANGED <<program, out>>
              /\ (touch_initialized /\ dataIsNull) =>
                    /\ ret' = HAL_TOUCH_INVALID_PARAM
                    /\ pc' = "idle"
                    /\ UNCHANGED <<program, out>>]_vars

\* C28 witness: a read has been refused on a subsystem that was used and
\* then deinitialized.
C28_Witness ==
    /\ pc = "idle"
    /\ ret = HAL_TOUCH_NOT_INITIALIZED
    /\ ~touch_initialized
    /\ out # NoOut

\* C29: when the read() that ends the loop of hal_touch_read failed for a
\* reason other than no data being available, the call returns an error
\* status, neither HAL_TOUCH_OK nor HAL_TOUCH_NO_DATA; when it only found
\* nothing to read the call does not return an error status.
C29_ReadFailureReported ==
    [][\A errno \in ReadErrnos :
          (ReadEndWith(errno) /\ pc = "reading") =>
              IF errno = "EAGAIN"
              THEN ret' \in {HAL_TOUCH_OK, HAL_TOUCH_NO_DATA}
              ELSE ret' \notin {HAL_TOUCH_OK, HAL_TOUCH_NO_DATA}]_vars

\* C30: a tracking-id, position or pressure event changes only the slot the
\* current slot pointer designates; a position or pressure event leaves the
\* value of that event in the slot whatever was there, and the report-end
\* keeps it, so the frame shows the last write.
C30_LastWriteWins ==
    [][/\ \A event \in OverwriteEvents :
             (TouchesSlot(event) /\ current_slot \in Slots /\ ReadEvent(event)) =>
                 /\ \A s \in Slots \ {current_slot} :
                       current_touch_data'.points[s] = current_touch_data.points[s]
                 /\ IsPositionX(event) =>
                       current_touch_data'.points[current_slot].x = ScaleX(event.value)
                 /\ IsPressure(event) =>
                       current_touch_data'.points[current_slot].pressure =
                           IF event.value > 255 THEN 255 ELSE event.value
       /\ ReportEndStep =>
             \A s \in Slots :
                /\ current_touch_data'.points[s].x = current_touch_data.points[s].x
                /\ current_touch_data'.points[s].pressure
                       = current_touch_data.points[s].pressure]_vars

\* C30 witness: the current slot has taken a second position in one report
\* and shows the last one, while the other slot still holds the other
\* position and its own pressure.
C30_Witness ==
    /\ pc = "reading"
    /\ IsPositionX(h_last) /\ h_last.value = 5000
    /\ current_slot \in Slots
    /\ h_seen[current_slot] = "again"
    /\ current_touch_data.points[current_slot].pressure = 0
    /\ current_touch_data.points[current_slot].x = ScaleX(5000)
    /\ \E s \in Slots \ {current_slot} :
          /\ current_touch_data.points[s].x = ScaleX(1000)
          /\ current_touch_data.points[s].pressure = 100

\* C32: after hal_touch_deinit followed by a successful hal_touch_init the
\* decoder is in its initial state: the slot table is reset and the current
\* slot pointer is 0, so that an axis event fed without a slot-select goes
\* to slot 0 whatever was fed before the deinit.
C32_ReinitResetsDecoder ==
    [][(HalTouchInit /\ ~touch_initialized /\ touch_initialized') =>
           /\ current_touch_data' = reset_touch_data
           /\ current_slot' = 0]_vars

\* C33: hal_touch_init on an initialized subsystem and hal_touch_deinit on
\* an uninitialized one return HAL_TOUCH_OK and change nothing of the
\* program's state; hal_touch_deinit on an initialized subsystem returns
\* HAL_TOUCH_OK with touch_fd = -1, the slot table reset and the subsystem
\* uninitialized.
C33_IdempotentInitDeinit ==
    [][/\ (HalTouchInit /\ touch_initialized) =>
             /\ ret' = HAL_TOUCH_OK
             /\ UNCHANGED program
       /\ (HalTouchDeinit /\ ~touch_initialized) =>
             /\ ret' = HAL_TOUCH_OK
             /\ UNCHANGED program
       /\ (HalTouchDeinit /\ touch_initialized) =>
             /\ ret' = HAL_TOUCH_OK
             /\ touch_fd' = -1
             /\ current_touch_data' = reset_touch_data
             /\ ~touch_initialized']_vars

\* C33 witness: a subsystem that handed out a frame with a contact has been
\* deinitialized: the handle is gone and the slot table is reset.
C33_Witness ==
    /\ pc = "idle" /\ ~crashed
    /\ ~touch_initialized /\ touch_fd = -1
    /\ ret = HAL_TOUCH_OK
    /\ out # NoOut /\ out.count > 0
    /\ \E i \in Slots : out.points[i].valid
    /\ current_touch_data = reset_touch_data

\* C34: every event that changes the slot table makes the call that
\* processes it return HAL_TOUCH_OK, so that a call returning
\* HAL_TOUCH_NO_DATA hands out the data of the call before.
C34_NoDataMeansUnchanged ==
    [][\A event \in AxisEvents :
          (ReadEvent(event) /\ current_touch_data' # current_touch_data) =>
              data_updated']_vars

\* C35: in every state, in the slot table and in the data handed to the
\* caller, every point with valid = true has id equal to its index.
C35_ValidIdIsIndex ==
    /\ \A i \in Slots :
          current_touch_data.points[i].valid => current_touch_data.points[i].id = i
    /\ out # NoOut =>
          \A i \in Slots : out.points[i].valid => out.points[i].id = i

\* C35 witness: a frame handed to the caller has a contact in slot 1, with
\* id 1.
C35_Witness ==
    /\ pc = "idle" /\ ret = HAL_TOUCH_OK
    /\ out # NoOut
    /\ out.points[1].valid /\ out.points[1].id = 1

\* C36: in every frame (the slot table as a report-end leaves it) the valid
\* points occupy the indices 0 .. count-1; in particular points[0] is not
\* invalid while points[1] is valid.
C36_ValidPointsFirst ==
    [][ReportEndStep =>
          \A i \in Slots :
             current_touch_data'.points[i].valid => i < current_touch_data'.count]_vars

\* C37: hal_touch_read applies the events of the source in the source's
\* order, each once: at every moment the events applied so far followed by
\* the events the source still holds are what the source held.  The call
\* returns only when the source has nothing left, so on return every event
\* has been applied; and a call that has started returns.
C37_ReadDrainsInOrder ==
    /\ [](h_drain.applied \o script = h_drain.source)
    /\ []((pc = "idle" /\ out # NoOut) =>
             (script = <<>> /\ h_drain.applied = h_drain.source))
    /\ (pc = "reading") ~> (pc = "idle" /\ out # NoOut /\ script = <<>>)

\* C37 witness: a call has returned after a source of three events; the
\* three were applied in order, which left one contact in slot 1.
C37_Witness ==
    /\ pc = "idle" /\ ret = HAL_TOUCH_OK
    /\ script = <<>>
    /\ h_drain.source = << InputEvent("EV_ABS", "ABS_MT_SLOT", 1),
                           InputEvent("EV_ABS", "ABS_MT_TRACKING_ID", 5),
                           InputEvent("EV_SYN", "SYN_REPORT", 0) >>
    /\ h_drain.applied = h_drain.source
    /\ out # NoOut /\ out.count = 1
    /\ out.points[1].valid /\ ~out.points[0].valid

\* C31: hal_led_set_pattern on an initialized LED subsystem: when every
\* write succeeds it returns HAL_OK and LED i is ON exactly when bit i of
\* the pattern is 1, for i in 0..3, whatever bits 4..7 are; when the write
\* for LED k fails it returns that error, the LEDs below k carry the new
\* pattern and the LEDs from k on are unchanged.
C31_SetPattern ==
    [][(led.gpio_initialized /\ led'.call.op = "set_pattern") =>
          LET pattern == led'.call.pattern
              failAt == IF led'.call.failed = {} THEN HAL_LED_COUNT
                        ELSE CHOOSE k \in Leds : led'.call.failed = {k}
          IN  /\ led'.gpio_initialized
              /\ led'.ret = IF failAt = HAL_LED_COUNT THEN HAL_OK ELSE HAL_ERROR
              /\ \A i \in Leds :
                    IF i < failAt
                    THEN /\ led'.led_states[i] = HAL_LED_ON <=> PatternBit(pattern, i) = 1
                         /\ led'.led_states[i] = HAL_LED_OFF <=> PatternBit(pattern, i) = 0
                         /\ led'.brightness[i] = PatternBit(pattern, i)
                    ELSE /\ led'.led_states[i] = led.led_states[i]
                         /\ led'.brightness[i] = led.brightness[i]]_vars

\* C31 witness: pattern 0101 was being set over 1000 when the write for
\* LED 2 failed: LEDs 0 and 1 carry the new pattern, LEDs 2 and 3 the old.
C31_Witness ==
    /\ led.gpio_initialized
    /\ led.call.op = "set_pattern" /\ led.call.pattern = 5 /\ led.call.failed = {2}
    /\ led.ret = HAL_ERROR
    /\ led.led_states = [i \in Leds |-> IF i \in {0, 3} THEN HAL_LED_ON ELSE HAL_LED_OFF]

\* C39: hal_led_set_state returns HAL_ERROR on an uninitialized subsystem,
\* HAL_INVALID_PARAM for led >= HAL_LED_COUNT or a state other than ON/OFF,
\* and the error of a failed write, each time leaving every cached LED
\* state as it was; a successful call changes the addressed LED only.
C39_SetStateCache ==
    [][led'.call.op = "set_state" =>
          LET which == led'.call.led
              state == led'.call.state
              ok == led'.call.failed = {}
          IN  IF ~led.gpio_initialized
              THEN led'.ret = HAL_ERROR /\ led'.led_states = led.led_states
              ELSE IF which >= HAL_LED_COUNT \/ state \notin {HAL_LED_ON, HAL_LED_OFF}
              THEN led'.ret = HAL_INVALID_PARAM /\ led'.led_states = led.led_states
              ELSE IF ~ok
              THEN led'.ret = HAL_ERROR /\ led'.led_states = led.led_states
              ELSE /\ led'.ret = HAL_OK
                   /\ led'.led_states = [led.led_states EXCEPT ![which] = state]]_vars

\* C39 witness: switching LED 1 off failed at the write; its cached state
\* is still ON.
C39_Witness ==
    /\ led.gpio_initialized
    /\ led.call.op = "set_state" /\ led.call.led = 1 /\ led.call.state = HAL_LED_OFF
    /\ led.call.failed = {1}
    /\ led.ret = HAL_ERROR
    /\ led.led_states[1] = HAL_LED_ON /\ led.brightness[1] = 1

\* C38: hal_lcd_set_pixel and hal_lcd_draw_rectangle, filled or outline, for
\* every rectangle (width 0 or height 0 and x = 0 or y = 0 included), store
\* only to framebuffer cells with an index in 0 .. LCD_WIDTH*LCD_HEIGHT - 1
\* whose pixel lies inside the rectangle clamped to the screen; a call with
\* x >= LCD_WIDTH or y >= LCD_HEIGHT returns HAL_LCD_INVALID_PARAM and
\* stores nothing.
C38_WritesInsideRectangle ==
    lcd.call.op \in {"set_pixel", "draw_rectangle"} =>
        /\ \A i \in lcd.written :
              /\ i \in FbCells
              /\ (i % LCD_WIDTH) >= lcd.call.x
              /\ (i % LCD_WIDTH) < lcd.call.x + lcd.call.width
              /\ (i \div LCD_WIDTH) >= lcd.call.y
              /\ (i \div LCD_WIDTH) < lcd.call.y + lcd.call.height
        /\ (lcd.call.x >= LCD_WIDTH \/ lcd.call.y >= LCD_HEIGHT) =>
              /\ lcd.written = {}
              /\ lcd.ret \in {HAL_LCD_INVALID_PARAM, HAL_LCD_NOT_INITIALIZED}
        /\ lcd.ret = HAL_LCD_NOT_INITIALIZED => lcd.written = {}

=============================================================================
